---------------------------- MODULE Spec2Model ----------------------------
(***************************************************************************)
(* FunctionAppClient (src/main.py): a client that calls an Azure Function  *)
(* App with a bearer token taken from a single-slot token cache.           *)
(*                                                                         *)
(* Time is counted in minutes: the expiry buffer timedelta(minutes=5) is   *)
(* 5, datetime.now().timestamp() is the clock `now`, and                   *)
(* AccessToken.expires_on is an absolute time on the same clock.           *)
(*                                                                         *)
(* A string is a sequence of chunks; a chunk is either the separator "/"   *)
(* or a piece of text that holds no "/".  String concatenation (an         *)
(* f-string) is \o.                                                        *)
(*                                                                         *)
(* The callers are threads that share one client instance.  One step of a  *)
(* caller is one read or one write of the shared attribute _cached_token,  *)
(* or one call of an external collaborator (the clock, the credential, the *)
(* HTTP transport).                                                        *)
(*                                                                         *)
(* Every record is written with its fields in the order in which the field *)
(* names first occur in this module, the order TLC keeps them in.          *)
(***************************************************************************)
EXTENDS Integers, Sequences, FiniteSets

\* ------------------------------------------------------------------ bounds

\* the clock runs from 0 to MaxTime
MaxTime == 2
\* the Credential Source is invoked at most MaxCredCalls times
MaxCredCalls == 3
\* the longest lifetime of a token the Credential Source issues
MaxLifetime == 6

\* the threads that share the client
Callers == {"c1", "c2"}

\* --------------------------------------------------------------- constants

\* Python's None
None == [none |-> TRUE]

\* timedelta(minutes=5), in minutes
token_expiry_buffer_minutes == 5

\* the default of _make_request's timeout parameter, in seconds
default_timeout == 30

\* a token's lifetime: shorter than the buffer, equal to it, or longer
Lifetimes == (token_expiry_buffer_minutes - 1)..MaxLifetime

\* the values CALLER_APP_URL_BASE_LOCAL / CALLER_APP_URL_BASE_AZURE may hold
BaseUrls == {<<"https://x.com">>, <<"https://x.com", "/">>}
\* the value of AZURE_FUNCTION_APP_CLIENT_ID
ClientIds == {"app"}

\* the inputs of get and post
Endpoints == {<<"alive">>, <<"/", "alive">>, <<"process_numbers">>}
Params == {None, [q |-> "1"]}
Payloads == {None, [numbers |-> <<1, 2, 3>>]}
Timeouts == {default_timeout, 5}

\* what the remote peer may answer: a status code and a body
Answers == {[status_code |-> 200, text |-> "ok"],
            [status_code |-> 304, text |-> ""],
            [status_code |-> 404, text |-> "not found"],
            [status_code |-> 500, text |-> "error"]}

VARIABLES
    url_base,             \* self.url_base
    scope,                \* self.scope
    token_expiry_buffer,  \* self._token_expiry_buffer
    cached_token,         \* self._cached_token: None or an AccessToken
    now,                  \* the clock behind datetime.now()
    cred_calls,           \* how many times the credential's get_token was called
    pc,                   \* each caller's position
    req,                  \* each caller's _make_request arguments and url
    t_now,                \* each caller's local `now` (line 52)
    acquired,             \* each caller's value of self._credential.get_token(...)
    tok,                  \* each caller's return value of _get_access_token
    wire,                 \* each caller's HTTP request in flight at the transport
    http_calls,           \* how many times the caller's current call ran requests.request
    outcome,              \* what the transport did with the caller's request
    result                \* how the caller's get/post call ended

vars == <<url_base, scope, token_expiry_buffer, cached_token, now, cred_calls,
          pc, req, t_now, acquired, tok, wire, http_calls, outcome, result>>

config == <<url_base, scope, token_expiry_buffer>>
locals == <<req, t_now, acquired, tok, wire, http_calls, outcome, result>>

\* ------------------------------------------------------------ pure helpers

\* azure.core.credentials.AccessToken(token, expires_on)
AccessToken(token, expires_on) == [token |-> token, expires_on |-> expires_on]

\* The bearer token the Credential Source issues on its serial-th call: like
\* a JWT, the string itself carries its expiry (exp), so a token can be told
\* from every other one and compared with the expires_on stored beside it.
\* The client never looks inside.
BearerToken(serial, exp) == [serial |-> serial, exp |-> exp]

\* mutant: the comparison the wrong way round
TokenUsableFlipped(c, n, buffer) == c # None /\ buffer > c.expires_on - n

\* mutant: the comparison not strict
TokenUsableNonStrict(c, n, buffer) == c # None /\ buffer <= c.expires_on - n

\* the condition of the if in _get_access_token
TokenUsable(c, n, buffer) == c # None /\ buffer < c.expires_on - n

\* url = f"{self.url_base}/{endpoint}"
JoinUrl(base, endpoint) == base \o <<"/">> \o endpoint

\* self.scope = f"api://{function_app_client_id}/.default"
ScopeOf(client_id) == <<"api:", "/", "/", client_id, "/", ".default">>

\* _get_auth_header
AuthHeader(token) ==
    [Authorization |-> <<"Bearer ", token>>, ContentType |-> "application/json"]

\* mutant: get hands its params to _make_request as the body
getWithBody(endpoint, params, timeout) ==
    [endpoint |-> endpoint, params |-> None, timeout |-> timeout,
     method |-> "GET", json |-> params]

\* FunctionAppClient.get: the arguments it hands to _make_request
get(endpoint, params, timeout) ==
    [endpoint |-> endpoint, params |-> params, timeout |-> timeout,
     method |-> "GET", json |-> None]

\* FunctionAppClient.post: the arguments it hands to _make_request
post(endpoint, payload, params, timeout) ==
    [endpoint |-> endpoint, params |-> params, timeout |-> timeout,
     method |-> "POST", json |-> payload]

\* params or {}
ParamsOrEmpty(params) == IF params = None THEN [empty |-> TRUE] ELSE params

\* the arguments of requests.request(...)
HttpRequest(r, url, headers) ==
    [params |-> ParamsOrEmpty(r.params), timeout |-> r.timeout,
     method |-> r.method, json |-> r.json, url |-> url, headers |-> headers]

\* requests.Response.raise_for_status raises HTTPError for 4xx and 5xx
RaisesForStatus(status_code) == 400 <= status_code /\ status_code < 600

\* a value handed back by return
Returned(response) == [response |-> response, how |-> "returned"]
\* an exception that leaves the call; response is the exception's .response
Raised(exc, response) == [response |-> response, how |-> "raised", exc |-> exc]

\* mutant: the handlers turn what they caught into a returned value
ExceptHandlerSwallows(exc, response) ==
    Returned(IF response = None THEN [status_code |-> 400, text |-> exc] ELSE response)

\* mutant: the handlers re-raise with a generic response in place of the peer's
ExceptHandlerGeneric(exc, response) ==
    Raised(exc, IF response = None THEN None ELSE [status_code |-> 500, text |-> "error"])

\* mutant: the timeout handler attaches a 408 response to what it re-raises
ExceptHandler408(exc, response) ==
    Raised(exc, IF exc = "Timeout"
                THEN [status_code |-> 408, text |-> "Request timed out"]
                ELSE response)

\* the except clauses of _make_request: each logs and re-raises what it caught
ExceptHandler(exc, response) == Raised(exc, response)

\* the try block of _make_request, given what requests.request did
Classify(o) ==
    IF o.kind = "response"
    THEN IF RaisesForStatus(o.response.status_code)
         THEN ExceptHandler("HTTPError", o.response)
         ELSE Returned(o.response)
    ELSE ExceptHandler(o.kind, None)

\* what requests.request can do with a request
TransportOutcomes ==
    {[response |-> a, kind |-> "response"] : a \in Answers}
    \cup {[kind |-> k] : k \in {"Timeout", "ConnectionError", "RequestException"}}

\* -------------------------------------------------------------------- Init

\* FunctionAppClient.__init__
Init ==
    /\ url_base \in BaseUrls
    /\ scope \in {ScopeOf(c) : c \in ClientIds}
    /\ token_expiry_buffer = token_expiry_buffer_minutes
    /\ cached_token = None
    /\ now = 0
    /\ cred_calls = 0
    /\ pc = [t \in Callers |-> "idle"]
    /\ req = [t \in Callers |-> None]
    /\ t_now = [t \in Callers |-> 0]
    /\ acquired = [t \in Callers |-> None]
    /\ tok = [t \in Callers |-> None]
    /\ wire = [t \in Callers |-> None]
    /\ http_calls = [t \in Callers |-> 0]
    /\ outcome = [t \in Callers |-> None]
    /\ result = [t \in Callers |-> None]

\* ----------------------------------------------------------------- actions

\* the clock advances
Tick ==
    /\ now < MaxTime
    /\ now' = now + 1
    /\ UNCHANGED <<config, cached_token, cred_calls, pc, locals>>

\* mutant: line 106 rebinds self.url_base to the url it builds
EnterRebindsBase(t, r) ==
    /\ pc[t] = "idle"
    /\ req' = [req EXCEPT ![t] = [url |-> JoinUrl(url_base, r.endpoint), args |-> r]]
    /\ url_base' = JoinUrl(url_base, r.endpoint)
    /\ pc' = [pc EXCEPT ![t] = "now"]
    /\ UNCHANGED <<scope, token_expiry_buffer, cached_token, now, cred_calls,
                   t_now, acquired, tok, wire, http_calls, outcome, result>>

\* _make_request is entered with the arguments r; line 106 builds the url
Enter(t, r) ==
    /\ pc[t] = "idle"
    /\ req' = [req EXCEPT ![t] = [url |-> JoinUrl(url_base, r.endpoint), args |-> r]]
    /\ pc' = [pc EXCEPT ![t] = "now"]
    /\ UNCHANGED <<config, cached_token, now, cred_calls,
                   t_now, acquired, tok, wire, http_calls, outcome, result>>

\* client.get(endpoint, params, timeout=...)
CallGet(t, E, P, D) ==
    \E e \in E, p \in P, d \in D : Enter(t, get(e, p, d))

\* client.post(endpoint, payload, params, timeout=...)
CallPost(t, E, J, P, D) ==
    \E e \in E, j \in J, p \in P, d \in D : Enter(t, post(e, j, p, d))

\* line 52: now = datetime.now().timestamp()
ReadNow(t) ==
    /\ pc[t] = "now"
    /\ t_now' = [t_now EXCEPT ![t] = now]
    /\ pc' = [pc EXCEPT ![t] = "check_exists"]
    /\ UNCHANGED <<config, cached_token, now, cred_calls,
                   req, acquired, tok, wire, http_calls, outcome, result>>

\* line 57: the first operand of `and` reads self._cached_token
CheckExists(t) ==
    /\ pc[t] = "check_exists"
    /\ pc' = [pc EXCEPT ![t] = IF cached_token # None THEN "check_fresh" ELSE "acquire"]
    /\ UNCHANGED <<config, cached_token, now, cred_calls, locals>>

\* lines 58-59: the second operand reads self._cached_token.expires_on
CheckFresh(t) ==
    /\ pc[t] = "check_fresh"
    /\ pc' = [pc EXCEPT ![t] =
                IF TokenUsable(cached_token, t_now[t], token_expiry_buffer)
                THEN "hit" ELSE "acquire"]
    /\ UNCHANGED <<config, cached_token, now, cred_calls, locals>>

\* line 62: return self._cached_token.token; the frame of _get_access_token,
\* and its local `now` with it, is gone
ReturnCached(t) ==
    /\ pc[t] = "hit"
    /\ tok' = [tok EXCEPT ![t] = [token |-> cached_token.token]]
    /\ t_now' = [t_now EXCEPT ![t] = 0]
    /\ pc' = [pc EXCEPT ![t] = "send"]
    /\ UNCHANGED <<config, cached_token, now, cred_calls,
                   req, acquired, wire, http_calls, outcome, result>>

\* line 66, right-hand side: self._credential.get_token(self.scope) answers
\* with a new token whose lifetime the credential chooses; the local `now`
\* is not read again
AcquireOk(t) ==
    /\ pc[t] = "acquire"
    /\ cred_calls < MaxCredCalls
    /\ cred_calls' = cred_calls + 1
    /\ \E life \in Lifetimes :
         acquired' = [acquired EXCEPT ![t] =
            AccessToken(BearerToken(cred_calls + 1, now + life), now + life)]
    /\ t_now' = [t_now EXCEPT ![t] = 0]
    /\ pc' = [pc EXCEPT ![t] = "store"]
    /\ UNCHANGED <<config, cached_token, now,
                   req, tok, wire, http_calls, outcome, result>>

\* mutant: the failure of get_token is caught and the request goes out
\* without a token
CredentialErrorSwallowed(t) ==
    /\ tok' = [tok EXCEPT ![t] = [token |-> None]]
    /\ pc' = [pc EXCEPT ![t] = "send"]
    /\ UNCHANGED <<result, wire, http_calls>>

\* what a caller does when get_token raises: nothing catches it between
\* line 66 and the caller of get/post (line 107 is outside the try block)
CredentialErrorPropagates(t) ==
    /\ result' = [result EXCEPT ![t] = Raised("ClientAuthenticationError", None)]
    /\ pc' = [pc EXCEPT ![t] = "done"]
    /\ UNCHANGED <<tok, wire, http_calls>>

\* mutant: the failure of get_token empties the slot
AcquireFailClearsSlot(t) ==
    /\ pc[t] = "acquire"
    /\ cred_calls < MaxCredCalls
    /\ cred_calls' = cred_calls + 1
    /\ t_now' = [t_now EXCEPT ![t] = 0]
    /\ CredentialErrorPropagates(t)
    /\ cached_token' = None
    /\ UNCHANGED <<config, now, req, acquired, outcome>>

\* line 66, right-hand side: self._credential.get_token(self.scope) raises
AcquireFail(t) ==
    /\ pc[t] = "acquire"
    /\ cred_calls < MaxCredCalls
    /\ cred_calls' = cred_calls + 1
    /\ t_now' = [t_now EXCEPT ![t] = 0]
    /\ CredentialErrorPropagates(t)
    /\ UNCHANGED <<config, cached_token, now, req, acquired, outcome>>

\* line 66, right-hand side: self._credential.get_token(self.scope) never
\* answers.  get_token is called with the scope alone: the timeout of the
\* call is not handed to it and nothing else interrupts it, so the caller
\* stays on line 66
AcquireHangs(t) ==
    /\ pc[t] = "acquire"
    /\ cred_calls' = cred_calls + 1
    /\ t_now' = [t_now EXCEPT ![t] = 0]
    /\ pc' = [pc EXCEPT ![t] = "blocked"]
    /\ UNCHANGED <<config, cached_token, now,
                   req, acquired, tok, wire, http_calls, outcome, result>>

\* mutant: the slot is updated field by field, and only the token is
StoreTokenOnly(old, new) ==
    IF old = None THEN new ELSE AccessToken(new.token, old.expires_on)

\* the assignment of line 66: the slot is rebound to the new object
StoreToken(old, new) == new

\* line 66, left-hand side: self._cached_token = ...
Store(t) ==
    /\ pc[t] = "store"
    /\ cached_token' = StoreToken(cached_token, acquired[t])
    /\ acquired' = [acquired EXCEPT ![t] = None]
    /\ pc' = [pc EXCEPT ![t] = "return_new"]
    /\ UNCHANGED <<config, now, cred_calls,
                   req, t_now, tok, wire, http_calls, outcome, result>>

\* line 68: return self._cached_token.token
ReturnNew(t) ==
    /\ pc[t] = "return_new"
    /\ tok' = [tok EXCEPT ![t] = [token |-> cached_token.token]]
    /\ pc' = [pc EXCEPT ![t] = "send"]
    /\ UNCHANGED <<config, cached_token, now, cred_calls,
                   req, t_now, acquired, wire, http_calls, outcome, result>>

\* lines 76-80 and 110-117: the header is built and requests.request is called
Send(t) ==
    /\ pc[t] = "send"
    /\ wire' = [wire EXCEPT ![t] =
                 HttpRequest(req[t].args, req[t].url, AuthHeader(tok[t].token))]
    /\ http_calls' = [http_calls EXCEPT ![t] = @ + 1]
    /\ tok' = [tok EXCEPT ![t] = None]
    /\ pc' = [pc EXCEPT ![t] = "wait"]
    /\ UNCHANGED <<config, cached_token, now, cred_calls,
                   req, t_now, acquired, outcome, result>>

\* requests.request comes back: with a response, or with an exception
Respond(t) ==
    /\ pc[t] = "wait"
    /\ \E o \in TransportOutcomes : outcome' = [outcome EXCEPT ![t] = o]
    /\ wire' = [wire EXCEPT ![t] = None]
    /\ pc' = [pc EXCEPT ![t] = "classify"]
    /\ UNCHANGED <<config, cached_token, now, cred_calls,
                   req, t_now, acquired, tok, http_calls, result>>

\* mutant: a failure of the request empties the slot
FinishInvalidates(t) ==
    /\ pc[t] = "classify"
    /\ result' = [result EXCEPT ![t] = Classify(outcome[t])]
    /\ cached_token' = IF Classify(outcome[t]).how = "raised" THEN None ELSE cached_token
    /\ pc' = [pc EXCEPT ![t] = "done"]
    /\ UNCHANGED <<config, now, cred_calls,
                   req, t_now, acquired, tok, wire, http_calls, outcome>>

\* mutant: after a failure the call starts over, once
FinishRetries(t) ==
    /\ pc[t] = "classify"
    /\ IF Classify(outcome[t]).how = "raised" /\ http_calls[t] < 2
       THEN /\ pc' = [pc EXCEPT ![t] = "now"]
            /\ outcome' = [outcome EXCEPT ![t] = None]
            /\ UNCHANGED result
       ELSE /\ pc' = [pc EXCEPT ![t] = "done"]
            /\ result' = [result EXCEPT ![t] = Classify(outcome[t])]
            /\ UNCHANGED outcome
    /\ UNCHANGED <<config, cached_token, now, cred_calls,
                   req, t_now, acquired, tok, wire, http_calls>>

\* lines 119-140: raise_for_status, return, or the except clause
Finish(t) ==
    /\ pc[t] = "classify"
    /\ result' = [result EXCEPT ![t] = Classify(outcome[t])]
    /\ pc' = [pc EXCEPT ![t] = "done"]
    /\ UNCHANGED <<config, cached_token, now, cred_calls,
                   req, t_now, acquired, tok, wire, http_calls, outcome>>

\* the call is over: the caller has its result and the frame is gone
Return(t) ==
    /\ pc[t] = "done"
    /\ pc' = [pc EXCEPT ![t] = "idle"]
    /\ req' = [req EXCEPT ![t] = None]
    /\ http_calls' = [http_calls EXCEPT ![t] = 0]
    /\ outcome' = [outcome EXCEPT ![t] = None]
    /\ result' = [result EXCEPT ![t] = None]
    /\ UNCHANGED <<config, cached_token, now, cred_calls, t_now, acquired, tok, wire>>

\* the steps of a call once it is entered
Body(t) ==
    \/ ReadNow(t)
    \/ CheckExists(t)
    \/ CheckFresh(t)
    \/ ReturnCached(t)
    \/ AcquireOk(t)
    \/ AcquireFail(t)
    \/ AcquireHangs(t)
    \/ Store(t)
    \/ ReturnNew(t)
    \/ Send(t)
    \/ Respond(t)
    \/ Finish(t)
    \/ Return(t)

\* main's two calls: client.get("alive") and
\* client.post("process_numbers", payload=payload)
MainGet(t) == CallGet(t, {<<"alive">>}, {None}, {default_timeout})
MainPost(t) ==
    CallPost(t, {<<"process_numbers">>}, Payloads \ {None}, {None}, {default_timeout})

\* every caller runs main's calls, in any order, concurrently with the others
Next ==
    \/ Tick
    \/ \E t \in Callers : MainGet(t)
    \/ \E t \in Callers : MainPost(t)
    \/ \E t \in Callers : Body(t)

Spec == Init /\ [][Next]_vars

\* one caller alone, with every input of get and post
NextOneCaller ==
    \/ Tick
    \/ CallGet("c1", Endpoints, Params, Timeouts)
    \/ CallPost("c1", Endpoints, Payloads, Params, Timeouts)
    \/ Body("c1")

SpecOneCaller == Init /\ [][NextOneCaller]_vars


\* ------------------------------------------------------------------ claims

\* remaining validity of the token in the slot, as the check of caller t
\* measures it: against the time the caller read on line 52
Remaining(t) == cached_token.expires_on - t_now[t]

\* C1. Cache freshness: when the check of a call finds a token in the slot
\* with expires_on - now > buffer, the call takes the cached path, returns
\* the token in the slot and leaves the credential and the slot alone; a call
\* goes on to the credential only after finding the slot empty or
\* expires_on - now <= buffer, and the credential's call count moves only in
\* the step of such a call.
CacheFreshness ==
    [][/\ \A t \in Callers :
            /\ (pc[t] = "check_fresh" /\ pc'[t] # "check_fresh"
                    /\ Remaining(t) > token_expiry_buffer)
                => pc'[t] = "hit"
            /\ (pc[t] = "hit" /\ pc'[t] # "hit")
                => /\ tok'[t] = [token |-> cached_token.token]
                   /\ cred_calls' = cred_calls
                   /\ cached_token' = cached_token
            /\ (pc[t] # "acquire" /\ pc'[t] = "acquire")
                => (cached_token = None \/ Remaining(t) <= token_expiry_buffer)
       /\ cred_calls' # cred_calls
            => \E t \in Callers : pc[t] = "acquire" /\ pc'[t] # "acquire"
      ]_vars

\* C1 witness: a caller found a fresh token and is about to return it
CacheHitReached ==
    \E t \in Callers :
        /\ pc[t] = "hit"
        /\ cred_calls >= 1
        /\ Remaining(t) > token_expiry_buffer

\* C2. Every token _get_access_token returns has, at the moment of return,
\* at least the buffer of remaining validity.
ReturnedTokenHasBuffer ==
    [][\A t \in Callers :
            (pc[t] # "send" /\ pc'[t] = "send")
                => tok'[t].token.exp - now' >= token_expiry_buffer
      ]_vars

\* a call that got as far as the HTTP request is over
HttpCallDone(t) == pc[t] = "done" /\ http_calls[t] > 0

\* C3, as claimed. No HTTP-layer outcome leaves _make_request as an
\* exception: every call that issued its request ends with a returned value.
NeverThrowsPastBoundary ==
    \A t \in Callers : HttpCallDone(t) => result[t].how = "returned"

\* C3, amended. A response whose status is not 4xx/5xx is returned; a 4xx/5xx
\* response leaves the call as the HTTPError raise_for_status raised, and a
\* timeout, a connection failure or another request error as the very
\* exception the transport raised.
HttpFailuresAreRaised ==
    \A t \in Callers : HttpCallDone(t) =>
        LET o == outcome[t] IN
        IF o.kind = "response"
        THEN IF o.response.status_code >= 400
             THEN result[t].how = "raised" /\ result[t].exc = "HTTPError"
             ELSE result[t].how = "returned" /\ result[t].response = o.response
        ELSE result[t].how = "raised" /\ result[t].exc = o.kind

\* C3 witness: a call ended with the transport's ConnectionError raised
ConnectionErrorRaised ==
    \E t \in Callers :
        /\ HttpCallDone(t)
        /\ outcome[t].kind = "ConnectionError"
        /\ result[t].how = "raised"

\* C4. Status preservation: when the peer answers with an error status and
\* a body, what the caller gets carries that status code and that body.
StatusPreserved ==
    \A t \in Callers :
        (HttpCallDone(t) /\ outcome[t].kind = "response"
            /\ outcome[t].response.status_code >= 400)
        => /\ result[t].response # None
           /\ result[t].response.status_code = outcome[t].response.status_code
           /\ result[t].response.text = outcome[t].response.text

\* C4 witness: the peer answered 404 "not found" and the call is over
NotFoundHandedOver ==
    \E t \in Callers :
        /\ HttpCallDone(t)
        /\ outcome[t].kind = "response"
        /\ outcome[t].response = [status_code |-> 404, text |-> "not found"]
        /\ result[t].response.status_code = 404

\* C5, as claimed. A timeout of the transport ends the call with a failure
\* of status 408.
TimeoutIs408 ==
    \A t \in Callers :
        (HttpCallDone(t) /\ outcome[t].kind = "Timeout")
        => /\ result[t].response # None
           /\ result[t].response.status_code = 408

\* C5, amended. A timeout of the transport ends the call with the
\* transport's Timeout exception raised to the caller; it carries no
\* response, and so no status code.
TimeoutIsReraised ==
    \A t \in Callers :
        (HttpCallDone(t) /\ outcome[t].kind = "Timeout")
        => /\ result[t].how = "raised"
           /\ result[t].exc = "Timeout"
           /\ result[t].response = None

\* C5 witness: the transport timed out and the call is over
TimeoutReached ==
    \E t \in Callers : HttpCallDone(t) /\ outcome[t].kind = "Timeout"

\* the call of caller t ended with the credential's failure
AuthFailed(t) ==
    pc[t] = "done" /\ result[t] = Raised("ClientAuthenticationError", None)

\* C6. The token is acquired before the HTTP request: a request that went
\* out carries a token the credential issued.  When the credential fails the
\* call ends at once with that failure raised, no request was issued in the
\* call, and nothing is returned.
AuthFailureOrdering ==
    \A t \in Callers :
        /\ wire[t] # None
            => /\ wire[t].headers.Authorization[2] # None
               /\ wire[t].headers.Authorization[2].serial \in 1..cred_calls
        /\ AuthFailed(t) => (http_calls[t] = 0 /\ wire[t] = None /\ outcome[t] = None)
        /\ (pc[t] = "done" /\ http_calls[t] = 0) => AuthFailed(t)
        /\ pc[t] \in {"wait", "classify"} => http_calls[t] = 1

\* C6 witness: a call ended with the credential's failure
AuthFailureReached == \E t \in Callers : AuthFailed(t) /\ cred_calls >= 1

\* caller t is between its staleness check and its store of the slot
Refreshing(t) == pc[t] \in {"acquire", "store"}

\* C7. Token refresh is serialized: no two callers are between the
\* staleness check and the store of the slot at the same time.
RefreshSerialized ==
    \A t, u \in Callers : (t # u) => ~(Refreshing(t) /\ Refreshing(u))

\* a bearer token the credential has issued
Issued(b) == b # None /\ b.serial \in 1..cred_calls

\* C8. Concurrent cache safety: the slot always holds a token with the expiry
\* the credential issued for that very token, and every caller gets a token
\* the credential issued.
ConcurrentCacheSafety ==
    /\ cached_token # None
        => /\ Issued(cached_token.token)
           /\ cached_token.expires_on = cached_token.token.exp
    /\ \A t \in Callers :
        /\ tok[t] # None => Issued(tok[t].token)
        /\ wire[t] # None => Issued(wire[t].headers.Authorization[2])

\* C8 witness: two callers both found the slot empty, both acquired, and
\* the first token acquired was the last one stored
BothStoredAfterEmpty ==
    /\ cred_calls = 2
    /\ cached_token # None
    /\ cached_token.token.serial = 1
    /\ \A t \in Callers : pc[t] = "send"

RECURSIVE StripTrailing(_)
\* s without the separators at its end
StripTrailing(s) ==
    IF Len(s) > 0 /\ s[Len(s)] = "/" THEN StripTrailing(SubSeq(s, 1, Len(s) - 1)) ELSE s

RECURSIVE StripLeading(_)
\* s without the separators at its start
StripLeading(s) ==
    IF Len(s) > 0 /\ s[1] = "/" THEN StripLeading(Tail(s)) ELSE s

\* C9. URL join: whatever slashes end the base URL or start the endpoint,
\* the url has exactly one separator between the two.
UrlJoinSingleSlash ==
    \A t \in Callers :
        req[t] # None
        => req[t].url = StripTrailing(url_base) \o <<"/">> \o StripLeading(req[t].args.endpoint)

\* C10. Refresh boundary: a token in the slot with expires_on - now equal to
\* the buffer is treated as expired: the call goes on to the credential, and
\* what the credential answers replaces the slot.
RefreshAtBoundary ==
    [][\A t \in Callers :
            /\ (pc[t] = "check_fresh" /\ pc'[t] # "check_fresh"
                    /\ Remaining(t) = token_expiry_buffer)
                => pc'[t] = "acquire"
            /\ (pc[t] = "acquire" /\ pc'[t] # "acquire")
                => cred_calls' = cred_calls + 1
            /\ (pc[t] = "store" /\ pc'[t] # "store")
                => (cached_token' = acquired[t] /\ acquired[t] # None)
      ]_vars

\* C10 witness: a caller found a token with exactly the buffer left and is
\* about to call the credential
BoundaryRefreshReached ==
    \E t \in Callers :
        /\ pc[t] = "acquire"
        /\ cached_token # None
        /\ Remaining(t) = token_expiry_buffer

\* how far a call has come: the line of the code the caller is on
Progress(p) ==
    CASE p = "idle" -> 0
      [] p = "now" -> 1
      [] p = "check_exists" -> 2
      [] p = "check_fresh" -> 3
      [] p = "hit" -> 4
      [] p = "acquire" -> 4
      [] p = "store" -> 5
      [] p = "return_new" -> 6
      [] p = "send" -> 7
      [] p = "wait" -> 8
      [] p = "classify" -> 9
      [] p = "done" -> 10
      [] p = "blocked" -> 11

\* C11. No internal retry: a call only moves forward until it is over, it
\* runs requests.request at most once, on its way from line 107 to line 117,
\* and the credential is invoked only by a call that leaves line 66, which a
\* call does at most once; after a failure the call ends.
NoInternalRetry ==
    [][\A t \in Callers :
            /\ http_calls'[t] <= 1
            /\ pc'[t] # pc[t]
                => \/ Progress(pc'[t]) > Progress(pc[t])
                   \/ pc[t] = "done" /\ pc'[t] = "idle"
            /\ (http_calls'[t] > http_calls[t])
                => pc[t] = "send" /\ pc'[t] = "wait"
            /\ (pc[t] = "classify" /\ pc'[t] # "classify")
                => pc'[t] = "done"
            /\ (cred_calls' # cred_calls)
                => /\ cred_calls' = cred_calls + 1
                   /\ \E u \in Callers : pc[u] = "acquire" /\ pc'[u] # "acquire"
      ]_vars

\* C11 witness: a call that issued its one request ended with a failure
FailedAfterOneRequest ==
    \E t \in Callers :
        /\ pc[t] = "done"
        /\ result[t].how = "raised"
        /\ http_calls[t] = 1

\* C12. Every response whose status is not in 200..299 ends the call as an
\* HTTP error; only a 2xx response is handed back as a success.
SuccessOnlyFor2xx ==
    \A t \in Callers :
        (HttpCallDone(t) /\ outcome[t].kind = "response")
        => IF outcome[t].response.status_code \in 200..299
           THEN result[t].how = "returned"
           ELSE result[t].how = "raised" /\ result[t].exc = "HTTPError"

\* C13. A failure of the credential leaves the slot as it was: the step in
\* which get_token raises does not write the slot, the call ends there, and
\* whatever is written to the slot is a whole token the credential answered.
FailedRefreshKeepsSlot ==
    [][/\ \A t \in Callers :
            (pc[t] = "acquire" /\ pc'[t] = "done")
                => /\ cached_token' = cached_token
                   /\ result'[t] = Raised("ClientAuthenticationError", None)
       /\ cached_token' # cached_token
            => \E t \in Callers :
                /\ pc[t] = "store" /\ pc'[t] = "return_new"
                /\ cached_token' = acquired[t]
                /\ Issued(acquired[t].token)
                /\ acquired[t].expires_on = acquired[t].token.exp
      ]_vars

\* C13 witness: the credential failed while the slot held an earlier token
FailedWithTokenInSlot ==
    \E t \in Callers : AuthFailed(t) /\ cached_token # None /\ http_calls[t] = 0

\* C14. Every call returns: a call that has begun can always take its next
\* step, whatever the credential and the transport do, until it is over.
EveryCallGoesOn ==
    \A t \in Callers : pc[t] # "idle" => ENABLED Body(t)

ConfigNeverChanges ==
    [][/\ url_base' = url_base
       /\ scope' = scope
       /\ token_expiry_buffer' = token_expiry_buffer
      ]_vars

\* C16 witness: calls have run and the slot has been written more than once
SlotRewritten ==
    /\ cached_token # None
    /\ cached_token.token.serial >= 2
    /\ \E t \in Callers : pc[t] = "done"

\* C17. An HTTP-layer failure does not touch the cache: the request goes out
\* with the token of the slot, and from then until the call is over, however
\* it ends, the caller writes neither the slot nor calls the credential.
HttpFailureKeepsSlot ==
    [][\A t \in Callers :
            /\ (pc[t] = "send" /\ pc'[t] = "wait")
                => /\ cached_token # None
                   /\ wire'[t].headers.Authorization[2] = cached_token.token
            /\ (pc[t] \in {"send", "wait", "classify", "done"} /\ pc'[t] # pc[t])
                => (cached_token' = cached_token /\ cred_calls' = cred_calls)
      ]_vars

\* C17 witness: a call ended with a 500 of the peer and the slot holds a token
FailedWithSlotKept ==
    \E t \in Callers :
        /\ HttpCallDone(t)
        /\ result[t].how = "raised"
        /\ outcome[t].kind = "response"
        /\ outcome[t].response.status_code = 500
        /\ cached_token # None

\* the credential issued a and b with expiries in the order of their issue
IssuedInOrder(a, b) ==
    /\ a.token.serial <= b.token.serial => a.expires_on <= b.expires_on
    /\ b.token.serial <= a.token.serial => b.expires_on <= a.expires_on

\* C18. The cached expiry never moves backwards: when the credential issues
\* expiries in the order of its calls, every store replaces the token of the
\* slot by one that expires no earlier.
ExpiryNeverMovesBack ==
    [][\A t \in Callers :
            (pc[t] = "store" /\ pc'[t] = "return_new" /\ cached_token # None
                /\ IssuedInOrder(cached_token, acquired[t]))
            => cached_token'.expires_on >= cached_token.expires_on
      ]_vars

=============================================================================
